---- MODULE Spec2Model ----
(***************************************************************************)
(* Badminton court monitor: the change detector (detectChanges) of the     *)
(* file/Firebase variants and of the in-memory variant, modelled on the    *)
(* JavaScript values the LCSD feed can deliver; the notification           *)
(* formatters; the monitoring cycle (main) over its snapshot store; and    *)
(* the chunked Firestore store.                                            *)
(*                                                                         *)
(* A JavaScript value is a record [t, n, s]: t is its type tag, n the      *)
(* number (t = "number") and s the string as a sequence of one-character   *)
(* strings (t = "string").  NaN has its own tag.                           *)
(***************************************************************************)
EXTENDS Integers, Sequences, FiniteSets

VARIABLES
    currentData,   \* the Dataset handed to detectChanges as currentData
    previousData,  \* the previous Dataset, or NoData when there is none
    pc,            \* "start" before the call, "done" after it
    variant,       \* which program's detectChanges ran
    outcome,       \* what the call did: it returned a Change list, or threw
    changeList,    \* the Change list handed to the formatter
    notification,  \* what the formatter returned
    responses,     \* what the feed answers to the attempts of a fetch
    fetchCall,     \* what a call of fetchCourtData did
    store,         \* the snapshot store: the file or the Firestore document
    saveCall,      \* what saveCurrentData was handed in this cycle
    cycle,         \* the number of the running cycle
    storeBefore,   \* the store as it was when the cycle began
    initialStore,  \* the store as it was before the first cycle
    fetchedEver,   \* the Datasets fetchCourtData has returned so far
    last,          \* how the cycle before this one went
    collection,    \* the Firestore collection of the chunked store
    saves,         \* the number of saveCurrentData calls on the collection
    console,       \* the notification blocks main has written in this cycle
    steps,         \* the steps main has finished in this cycle, in order
    calls          \* the calls of detectChanges so far: arguments and outcome

detectVars == <<currentData, previousData, outcome>>

formatVars == <<changeList, notification>>

fetchVars == <<responses, fetchCall>>

storeVars == <<store, saveCall>>

\* history, kept for the claims; the program does not read it
historyVars == <<cycle, storeBefore, initialStore, fetchedEver, last>>

cycleVars == <<store, saveCall, cycle, storeBefore, initialStore,
               fetchedEver, last>>

chunkVars == <<collection, saves>>

logVars == <<console, steps, calls>>

vars == <<currentData, previousData, pc, variant, outcome, changeList,
          notification, responses, fetchCall, store, saveCall, cycle,
          storeBefore, initialStore, fetchedEver, last, collection, saves,
          console, steps, calls>>

----------------------------------------------------------------------------
(* JavaScript values *)

Undefined == [t |-> "undefined", n |-> 0, s |-> <<>>]

Null == [t |-> "null", n |-> 0, s |-> <<>>]

NaN == [t |-> "NaN", n |-> 0, s |-> <<>>]

Num(n) == [t |-> "number", n |-> n, s |-> <<>>]

Str(chars) == [t |-> "string", n |-> 0, s |-> chars]

\* ToBoolean: what `x || 0` and `if (x)` test
Truthy(v) ==
    CASE v.t = "undefined" -> FALSE
      [] v.t = "null"      -> FALSE
      [] v.t = "NaN"       -> FALSE
      [] v.t = "number"    -> v.n # 0
      [] v.t = "string"    -> v.s # <<>>

Digits == <<"0", "1", "2", "3", "4", "5", "6", "7", "8", "9">>

IsDigit(c) == \E d \in 1..10 : Digits[d] = c

DigitVal(c) == (CHOOSE d \in 1..10 : Digits[d] = c) - 1

RECURSIVE NatToChars(_)
NatToChars(n) ==
    IF n < 10 THEN <<Digits[n + 1]>>
    ELSE NatToChars(n \div 10) \o <<Digits[(n % 10) + 1]>>

\* ToString, as a template literal `${v}` and parseInt apply it
ToString(v) ==
    CASE v.t = "undefined" -> <<"u", "n", "d", "e", "f", "i", "n", "e", "d">>
      [] v.t = "null"      -> <<"n", "u", "l", "l">>
      [] v.t = "NaN"       -> <<"N", "a", "N">>
      [] v.t = "number"    -> IF v.n < 0 THEN <<"-">> \o NatToChars(-v.n)
                              ELSE NatToChars(v.n)
      [] v.t = "string"    -> v.s

IsWhite(c) == c \in {" ", "\t", "\n"}

RECURSIVE TrimStart(_)
TrimStart(chars) ==
    IF chars # <<>> /\ IsWhite(Head(chars)) THEN TrimStart(Tail(chars))
    ELSE chars

RECURSIVE TrimEnd(_)
TrimEnd(chars) ==
    IF chars # <<>> /\ IsWhite(chars[Len(chars)])
    THEN TrimEnd(SubSeq(chars, 1, Len(chars) - 1))
    ELSE chars

\* String.prototype.trim
trim(chars) == TrimEnd(TrimStart(chars))

\* the longest prefix of decimal digits, as a number; acc is the value so far
RECURSIVE DigitPrefix(_, _)
DigitPrefix(chars, acc) ==
    IF chars # <<>> /\ IsDigit(Head(chars))
    THEN DigitPrefix(Tail(chars), 10 * acc + DigitVal(Head(chars)))
    ELSE acc

\* parseInt(v) with no radix: ToString, skip leading white space, an optional
\* sign, then the leading decimal digits; NaN when there is no digit
parseInt(v) ==
    LET S    == TrimStart(ToString(v))
        neg  == S # <<>> /\ Head(S) = "-"
        body == IF S # <<>> /\ Head(S) \in {"-", "+"} THEN Tail(S) ELSE S
    IN  IF body = <<>> \/ ~IsDigit(Head(body)) THEN NaN
        ELSE Num((IF neg THEN -1 ELSE 1) * DigitPrefix(body, 0))

\* a > b on numbers: false when either side is NaN
Gt(a, b) == a.t = "number" /\ b.t = "number" /\ a.n > b.n

\* a === b on numbers: NaN equals nothing
StrictEq(a, b) == a.t = "number" /\ b.t = "number" /\ a.n = b.n

----------------------------------------------------------------------------
(* Map: entries in insertion order; set on a present key keeps its place *)

MapHas(m, k) == \E i \in 1..Len(m) : m[i].key = k

MapIndex(m, k) == CHOOSE i \in 1..Len(m) : m[i].key = k

\* a set that keeps the value a present key already has
MapSetFirstWins(m, k, v) ==
    IF MapHas(m, k) THEN m
    ELSE Append(m, [key |-> k, value |-> v])

MapSet(m, k, v) ==
    IF MapHas(m, k) THEN [m EXCEPT ![MapIndex(m, k)].value = v]
    ELSE Append(m, [key |-> k, value |-> v])

MapGet(m, k) == m[MapIndex(m, k)].value

----------------------------------------------------------------------------
(* detectChanges of the file and Firebase variants *)

\* previousData as main hands it over: null, or the loaded array
NoData == [present |-> FALSE, data |-> <<>>]

Loaded(data) == [present |-> TRUE, data |-> data]

\* `${court.Venue_Name_EN}-${court.Available_Date}-${court.Session_Start_Time}`
KeyOf(court) ==
    ToString(court.Venue_Name_EN) \o <<"-">> \o ToString(court.Available_Date)
        \o <<"-">> \o ToString(court.Session_Start_Time)

\* `${currentCourt.Session_Start_Time}-${currentCourt.Session_End_Time}`
TimeOf(court) ==
    Str(ToString(court.Session_Start_Time) \o <<"-">>
            \o ToString(court.Session_End_Time))

\* x || 0
OrZero(v) == IF Truthy(v) THEN v ELSE Num(0)

\* parseInt(court.Available_Courts || 0)
Available(court) == parseInt(OrZero(court.Available_Courts))

\* previousData.forEach(court => previousMap.set(key, court)), from index i on
RECURSIVE BuildMap(_, _, _)
BuildMap(data, i, m) ==
    IF i > Len(data) THEN m
    ELSE BuildMap(data, i + 1, MapSet(m, KeyOf(data[i]), data[i]))

\* v?.trim(): undefined for undefined and null, the trimmed string for a
\* string, and a TypeError (trim is not a function) for any other value
OptionalTrim(v) ==
    CASE v.t \in {"undefined", "null"} -> [threw |-> FALSE, value |-> Undefined]
      [] v.t = "string" -> [threw |-> FALSE, value |-> Str(trim(v.s))]
      [] OTHER -> [threw |-> TRUE, value |-> Undefined]

\* the first test alone, with no else if
BranchNewOnly(currentAvailable, previousAvailable) ==
    IF Gt(currentAvailable, Num(0)) /\ StrictEq(previousAvailable, Num(0))
    THEN "new_availability"
    ELSE "none"

\* the first test without `previousAvailable === 0`
BranchAnyAvailable(currentAvailable, previousAvailable) ==
    IF Gt(currentAvailable, Num(0))
    THEN "new_availability"
    ELSE IF Gt(currentAvailable, previousAvailable)
            /\ Gt(previousAvailable, Num(0))
    THEN "increased_availability"
    ELSE "none"

\* which branch of the if / else if the pair of counts takes
Branch(currentAvailable, previousAvailable) ==
    IF Gt(currentAvailable, Num(0)) /\ StrictEq(previousAvailable, Num(0))
    THEN "new_availability"
    ELSE IF Gt(currentAvailable, previousAvailable)
            /\ Gt(previousAvailable, Num(0))
    THEN "increased_availability"
    ELSE "none"

dayNames == <<"Sun", "Mon", "Tue", "Wed", "Thu", "Fri", "Sat">>

\* String(n).padStart(2, '0')
PadStart2(n) == IF n < 10 THEN <<"0">> \o NatToChars(n) ELSE NatToChars(n)

\* new Date(dateString) of a calendar date YYYY-MM-DD, read on a UTC clock:
\* [valid, day (0 = Sunday), month, date]; any other value is an Invalid Date
DateOf(v) ==
    LET c == ToString(v)
        wellFormed ==
            /\ v.t = "string" /\ Len(c) = 10
            /\ \A i \in {1, 2, 3, 4, 6, 7, 9, 10} : IsDigit(c[i])
            /\ c[5] = "-" /\ c[8] = "-"
        y == DigitPrefix(SubSeq(c, 1, 4), 0)
        m == DigitPrefix(SubSeq(c, 6, 7), 0)
        d == DigitPrefix(SubSeq(c, 9, 10), 0)
        t == <<0, 3, 2, 5, 0, 3, 5, 1, 4, 6, 2, 4>>
        yy == IF m < 3 THEN y - 1 ELSE y
    IN  IF wellFormed /\ m \in 1..12 /\ d \in 1..31
        THEN [valid |-> TRUE, month |-> m, date |-> d,
              day |-> (yy + (yy \div 4) - (yy \div 100) + (yy \div 400)
                          + t[m] + d) % 7]
        ELSE [valid |-> FALSE, month |-> 0, date |-> 0, day |-> 0]

\* formatDate: `${dayName}, ${month}/${day}`; an Invalid Date gives
\* dayNames[NaN] = undefined and String(NaN) = "NaN", it does not throw
formatDate(v) ==
    LET date == DateOf(v)
    IN  IF date.valid
        THEN <<dayNames[date.day + 1], ", ">> \o PadStart2(date.month)
                 \o <<"/">> \o PadStart2(date.date)
        ELSE ToString(Undefined) \o <<", ">> \o ToString(NaN) \o <<"/">>
                 \o ToString(NaN)

\* the message template of a Change; the green circle and the bullet of the
\* source are written "(o)" and "*"
MessageOf(currentCourt, currentAvailable, was) ==
    Str(<<"(o) ">> \o ToString(currentCourt.Venue_Name_EN) \o <<"\n   ">>
        \o formatDate(currentCourt.Available_Date) \o <<" * ">>
        \o TimeOf(currentCourt).s \o <<"\n   Now available: ">>
        \o ToString(currentAvailable) \o <<" courts (was ">> \o ToString(was)
        \o <<")">>)

\* the object pushed by the first branch (lines 110-119)
NewAvailability(currentCourt, currentAvailable) ==
    [type |-> "new_availability",
     venue |-> currentCourt.Venue_Name_EN,
     district |-> OptionalTrim(currentCourt.District_Name_EN).value,
     date |-> currentCourt.Available_Date,
     time |-> TimeOf(currentCourt),
     currentCount |-> currentAvailable,
     previousCount |-> Num(0),
     increase |-> Undefined,
     message |-> MessageOf(currentCourt, currentAvailable, Num(0))]

\* the second branch's object with the increase put in previousCount
IncreasedWrongPrevious(currentCourt, currentAvailable, previousAvailable) ==
    [type |-> "increased_availability",
     venue |-> currentCourt.Venue_Name_EN,
     district |-> OptionalTrim(currentCourt.District_Name_EN).value,
     date |-> currentCourt.Available_Date,
     time |-> TimeOf(currentCourt),
     currentCount |-> currentAvailable,
     previousCount |-> Num(currentAvailable.n - previousAvailable.n),
     increase |-> Num(currentAvailable.n - previousAvailable.n),
     message |-> MessageOf(currentCourt, currentAvailable, previousAvailable)]

\* the object pushed by the second branch (lines 121-133)
IncreasedAvailability(currentCourt, currentAvailable, previousAvailable) ==
    [type |-> "increased_availability",
     venue |-> currentCourt.Venue_Name_EN,
     district |-> OptionalTrim(currentCourt.District_Name_EN).value,
     date |-> currentCourt.Available_Date,
     time |-> TimeOf(currentCourt),
     currentCount |-> currentAvailable,
     previousCount |-> previousAvailable,
     increase |-> Num(currentAvailable.n - previousAvailable.n),
     message |-> MessageOf(currentCourt, currentAvailable, previousAvailable)]

\* the callback without `if (previousCourt)`: a record with no previous record
\* is compared against the count 0
VisitUnmatchedAsZero(currentCourt, previousMap) ==
    LET key == KeyOf(currentCourt)
        currentAvailable == Available(currentCourt)
        previousAvailable ==
            IF MapHas(previousMap, key) THEN Available(MapGet(previousMap, key))
            ELSE Num(0)
        branch == Branch(currentAvailable, previousAvailable)
    IN  IF branch = "none" THEN [out |-> "skip", change |-> Undefined]
        ELSE IF OptionalTrim(currentCourt.District_Name_EN).threw
        THEN [out |-> "throw", change |-> Undefined]
        ELSE IF branch = "new_availability"
        THEN [out |-> "push",
              change |-> NewAvailability(currentCourt, currentAvailable)]
        ELSE [out |-> "push",
              change |-> IncreasedAvailability(currentCourt,
                             currentAvailable, previousAvailable)]

\* one call of the currentData.forEach callback: it pushes nothing ("skip"),
\* pushes one Change ("push") or throws building it ("throw")
Visit(currentCourt, previousMap) ==
    LET key == KeyOf(currentCourt)
    IN  IF ~MapHas(previousMap, key) THEN [out |-> "skip", change |-> Undefined]
        ELSE
        LET previousCourt == MapGet(previousMap, key)
            currentAvailable == Available(currentCourt)
            previousAvailable == Available(previousCourt)
            branch == Branch(currentAvailable, previousAvailable)
        IN  IF branch = "none" THEN [out |-> "skip", change |-> Undefined]
            ELSE IF OptionalTrim(currentCourt.District_Name_EN).threw
            THEN [out |-> "throw", change |-> Undefined]
            ELSE IF branch = "new_availability"
            THEN [out |-> "push",
                  change |-> NewAvailability(currentCourt, currentAvailable)]
            ELSE [out |-> "push",
                  change |-> IncreasedAvailability(currentCourt,
                                 currentAvailable, previousAvailable)]

\* what a call of detectChanges did.  sources is not program state: sources[n]
\* is the index in currentData of the record changes[n] was pushed for
Returned(changes, sources) ==
    [kind |-> "return", changes |-> changes, sources |-> sources]

Threw == [kind |-> "throw", changes |-> <<>>, sources |-> <<>>]

\* the loop with changes.unshift in place of changes.push
RECURSIVE ForEachCurrentUnshift(_, _, _, _, _)
ForEachCurrentUnshift(currentData_, previousMap, i, changes, sources) ==
    IF i > Len(currentData_)
    THEN [kind |-> "return", changes |-> changes, sources |-> sources]
    ELSE LET r == Visit(currentData_[i], previousMap)
         IN  CASE r.out = "throw" ->
                    [kind |-> "throw", changes |-> <<>>, sources |-> <<>>]
               [] r.out = "push" ->
                    ForEachCurrentUnshift(currentData_, previousMap, i + 1,
                                          <<r.change>> \o changes,
                                          <<i>> \o sources)
               [] OTHER ->
                    ForEachCurrentUnshift(currentData_, previousMap, i + 1,
                                          changes, sources)

\* currentData.forEach(...), from index i on; a throw ends the call
RECURSIVE ForEachCurrent(_, _, _, _, _)
ForEachCurrent(currentData_, previousMap, i, changes, sources) ==
    IF i > Len(currentData_) THEN Returned(changes, sources)
    ELSE LET r == Visit(currentData_[i], previousMap)
         IN  CASE r.out = "throw" -> Threw
               [] r.out = "push" ->
                    ForEachCurrent(currentData_, previousMap, i + 1,
                                   Append(changes, r.change), Append(sources, i))
               [] OTHER ->
                    ForEachCurrent(currentData_, previousMap, i + 1,
                                   changes, sources)

\* detectChanges without the `if (!previousData)` return: null.forEach throws
detectChangesUnguarded(currentData_, previousData_) ==
    IF ~previousData_.present THEN Threw
    ELSE ForEachCurrent(currentData_, BuildMap(previousData_.data, 1, <<>>),
                        1, <<>>, <<>>)

\* detectChanges(currentData, previousData), monitor-courts-enhanced.js; the
\* two Firebase variants hold the same function
detectChanges(currentData_, previousData_) ==
    IF ~previousData_.present THEN Returned(<<>>, <<>>)
    ELSE ForEachCurrent(currentData_, BuildMap(previousData_.data, 1, <<>>),
                        1, <<>>, <<>>)

----------------------------------------------------------------------------
(* detectChanges of the in-memory variant, monitor-courts.js *)

\* the if / else if of lines 64 and 76: the second test has no `> 0` part
BranchSimple(currentAvailable, previousAvailable) ==
    IF Gt(currentAvailable, Num(0)) /\ StrictEq(previousAvailable, Num(0))
    THEN "new_availability"
    ELSE IF Gt(currentAvailable, previousAvailable)
    THEN "increased_availability"
    ELSE "none"

\* the objects pushed at lines 65-73 and 77-85
ChangeSimple(type, currentCourt, currentAvailable, previous) ==
    [type |-> type,
     venue |-> currentCourt.Venue_Name_EN,
     district |-> OptionalTrim(currentCourt.District_Name_EN).value,
     date |-> currentCourt.Available_Date,
     time |-> TimeOf(currentCourt),
     courts |-> currentAvailable,
     previous |-> previous]

\* one call of the currentMap.forEach callback
VisitSimple(currentCourt, key, previousMap) ==
    IF ~MapHas(previousMap, key) THEN [out |-> "skip", change |-> Undefined]
    ELSE
    LET previousCourt == MapGet(previousMap, key)
        currentAvailable == Available(currentCourt)
        previousAvailable == Available(previousCourt)
        branch == BranchSimple(currentAvailable, previousAvailable)
    IN  IF branch = "none" THEN [out |-> "skip", change |-> Undefined]
        ELSE IF OptionalTrim(currentCourt.District_Name_EN).threw
        THEN [out |-> "throw", change |-> Undefined]
        ELSE [out |-> "push",
              change |-> ChangeSimple(branch, currentCourt, currentAvailable,
                             IF branch = "new_availability" THEN Num(0)
                             ELSE previousAvailable)]

\* the index of the record a Map built from data holds under key k: the last
\* one set
LastIndexOf(data, k) ==
    CHOOSE i \in 1..Len(data) :
        /\ KeyOf(data[i]) = k
        /\ \A j \in (i + 1)..Len(data) : KeyOf(data[j]) # k

\* currentMap.forEach(...), from entry e on, in the Map's insertion order
RECURSIVE ForEachEntry(_, _, _, _, _, _)
ForEachEntry(currentData_, currentMap, previousMap, e, changes, sources) ==
    IF e > Len(currentMap) THEN Returned(changes, sources)
    ELSE LET r == VisitSimple(currentMap[e].value, currentMap[e].key,
                              previousMap)
         IN  CASE r.out = "throw" -> Threw
               [] r.out = "push" ->
                    ForEachEntry(currentData_, currentMap, previousMap, e + 1,
                        Append(changes, r.change),
                        Append(sources,
                               LastIndexOf(currentData_, currentMap[e].key)))
               [] OTHER ->
                    ForEachEntry(currentData_, currentMap, previousMap, e + 1,
                                 changes, sources)

\* detectChanges(currentData, previousData), monitor-courts.js
detectChangesSimple(currentData_, previousData_) ==
    IF ~previousData_.present THEN Returned(<<>>, <<>>)
    ELSE ForEachEntry(currentData_, BuildMap(currentData_, 1, <<>>),
                      BuildMap(previousData_.data, 1, <<>>), 1, <<>>, <<>>)

----------------------------------------------------------------------------
(* The Datasets the detector is run on *)

MaxCurrent == 3

MaxPrevious == 2

Court(venue, district, date, start, end, courts) ==
    [Venue_Name_EN |-> venue, District_Name_EN |-> district,
     Available_Date |-> date, Session_Start_Time |-> start,
     Session_End_Time |-> end, Available_Courts |-> courts]

VenueA == Str(<<"A">>)

VenueB == Str(<<"B">>)

Kowloon == Str(<<" ", "K", "L", "N", " ">>)

Jan1 == Str(<<"2", "0", "2", "4", "-", "0", "1", "-", "0", "1">>)

Ten == Str(<<"1", "0", ":", "0", "0">>)

Eleven == Str(<<"1", "1", ":", "0", "0">>)

Twelve == Str(<<"1", "2", ":", "0", "0">>)

Jan2 == Str(<<"2", "0", "2", "4", "-", "0", "1", "-", "0", "2">>)

\* slot A: venue A on 1 January at 10:00
SlotA(district, courts) == Court(VenueA, district, Jan1, Ten, Eleven, courts)

\* slot B: the same venue and date at 11:00
SlotB(district, courts) == Court(VenueA, district, Jan1, Eleven, Twelve, courts)

\* slot C: venue B on 2 January at 10:00
SlotC(district, courts) == Court(VenueB, district, Jan2, Ten, Eleven, courts)

\* well-formed records of two slots, to build Datasets with repeated keys:
\* slot A has no court or two, slot B one or three
ShapeCourts ==
    {SlotA(Kowloon, c) : c \in {Num(0), Num(2)}}
    \cup {SlotB(Kowloon, c) : c \in {Num(1), Num(3)}}

\* the values Available_Courts is given: missing, null, numbers, and strings
\* that are empty, numeric or not numeric
RawCounts ==
    {Undefined, Null, Num(0), Num(1), Num(2), Num(3), Str(<<>>),
     Str(<<"0">>), Str(<<"2">>), Str(<<"a", "b", "c">>)}

\* records of slot A with every such count
CountCourts == {SlotA(Kowloon, c) : c \in RawCounts}

\* records of slot C whose district is missing, null or a number, and records
\* with no text field at all
OddCourts ==
    {SlotC(d, c) : d \in {Undefined, Null, Num(5)}, c \in {Num(0), Num(2)}}
    \cup {Court(Undefined, Undefined, Undefined, Undefined, Undefined, c) :
        c \in {Num(0), Num(2)}}

SeqsUpTo(S, n) == UNION {[1..k -> S] : k \in 0..n}

\* Datasets of up to MaxCurrent and MaxPrevious well-formed records
InitShapes ==
    /\ currentData \in SeqsUpTo(ShapeCourts, MaxCurrent)
    /\ previousData \in
           {NoData} \cup {Loaded(d) : d \in SeqsUpTo(ShapeCourts, MaxPrevious)}

\* Datasets of one record of slot A, alone or after one odd record
ValueDatasets ==
    {<<a>> : a \in CountCourts}
    \cup {<<b, a>> : b \in OddCourts, a \in CountCourts}

InitValues ==
    /\ currentData \in ValueDatasets
    /\ previousData \in {Loaded(d) : d \in ValueDatasets}

----------------------------------------------------------------------------
(* The fetchers *)

maxRetries == 3

retryDelay == 5000

\* what the feed answers to one attempt: the request fails (transport error
\* or timeout), the status is not 2xx, the body is not JSON, or the body is
\* a Dataset
TransportError == [kind |-> "error", data |-> <<>>]

NotOk == [kind |-> "status", data |-> <<>>]

UnreadableBody == [kind |-> "body", data |-> <<>>]

Ok(data) == [kind |-> "ok", data |-> data]

\* the try block of one attempt reaches `return data`
Succeeds(response) == response.kind = "ok"

\* what a call of fetchCourtData did: result is what it returned (NoData
\* for null), attempts the number of requests it made, delays the waits it
\* made, each with the attempt it followed
NotFetched == [result |-> NoData, attempts |-> 0, delays |-> <<>>]

FetchReturned(result, attempts, delays) ==
    [result |-> result, attempts |-> attempts, delays |-> delays]

\* the loop that also waits after its last failed attempt
RECURSIVE AttemptsWaitingLast(_, _, _)
AttemptsWaitingLast(responses_, attempt, delays) ==
    IF Succeeds(responses_[attempt])
    THEN FetchReturned(Loaded(responses_[attempt].data), attempt, delays)
    ELSE LET waited ==
                 Append(delays, [after |-> attempt, ms |-> retryDelay])
         IN  IF attempt = maxRetries
             THEN FetchReturned(NoData, attempt, waited)
             ELSE AttemptsWaitingLast(responses_, attempt + 1, waited)

\* the for loop of fetchCourtData from `attempt` on
RECURSIVE Attempts(_, _, _)
Attempts(responses_, attempt, delays) ==
    IF Succeeds(responses_[attempt])
    THEN FetchReturned(Loaded(responses_[attempt].data), attempt, delays)
    ELSE IF attempt = maxRetries
    THEN FetchReturned(NoData, attempt, delays)
    ELSE Attempts(responses_, attempt + 1,
                  Append(delays, [after |-> attempt, ms |-> retryDelay]))

\* the fetcher that also waits after its last failed attempt
fetchCourtDataWaitingLast(responses_) ==
    AttemptsWaitingLast(responses_, 1, <<>>)

\* fetchCourtData(), monitor-courts-enhanced.js; the two Firebase variants
\* hold the same loop
fetchCourtData(responses_) == Attempts(responses_, 1, <<>>)

\* fetchCourtData(), monitor-courts.js: one request, null on any failure
fetchCourtDataSimple(responses_) ==
    IF Succeeds(responses_[1])
    THEN FetchReturned(Loaded(responses_[1].data), 1, <<>>)
    ELSE FetchReturned(NoData, 1, <<>>)

----------------------------------------------------------------------------
(* The snapshot store *)

\* the store holds nothing, text that is not JSON (the file only), content
\* that is well formed but no Dataset, cannot be read, or holds a Dataset
Missing == [state |-> "missing", data |-> <<>>]

Unparsable == [state |-> "unparsable", data |-> <<>>]

NotADataset == [state |-> "object", data |-> <<>>]

Unreachable == [state |-> "unreachable", data |-> <<>>]

Stored(data) == [state |-> "dataset", data |-> data]

\* what loadPreviousData returns for content that is an object, not an array
NotArray == [present |-> TRUE, data |-> <<>>, array |-> FALSE]

\* JSON.parse(JSON.stringify(data)): a missing property stays missing, NaN
\* comes back as null, every other value as itself
stringifyParse(data) ==
    [i \in 1..Len(data) |->
        [f \in DOMAIN data[i] |->
            IF data[i][f].t = "NaN" THEN Null ELSE data[i][f]]]

\* loadPreviousData() of monitor-courts-enhanced.js: the parsed content of
\* the file, whatever it is; null when there is no file or reading or
\* parsing throws
loadPreviousDataFile(store_) ==
    CASE store_.state = "dataset" -> Loaded(store_.data)
      [] store_.state = "object"  -> NotArray
      [] OTHER                    -> NoData

\* loadPreviousData() of the single-document Firebase variant: the data
\* field of the document, whatever it is; null when there is no document or
\* get() throws
loadPreviousDataDocument(store_) ==
    CASE store_.state = "dataset" -> Loaded(store_.data)
      [] store_.state = "object"  -> NotArray
      [] OTHER                    -> NoData

\* loadPreviousData() of monitor-courts-firebase.js: the chunks the metadata
\* document counts, put together; no chunk when it has no totalChunks; null
\* when there is no metadata document or get() throws
loadPreviousDataChunked(store_) ==
    CASE store_.state = "dataset" -> Loaded(store_.data)
      [] store_.state = "object"  -> Loaded(<<>>)
      [] OTHER                    -> NoData

loadPreviousData(variant_, store_) ==
    CASE variant_ = "enhanced" -> loadPreviousDataFile(store_)
      [] variant_ = "firebase" -> loadPreviousDataDocument(store_)
      [] variant_ = "chunked"  -> loadPreviousDataChunked(store_)

\* the store after a write that deletes the snapshot when it fails
WrittenOrLost(variant_, store_, data, ok) ==
    IF ~ok THEN Missing
    ELSE IF variant_ = "enhanced" THEN Stored(stringifyParse(data))
    ELSE Stored(data)

\* the store after saveCurrentData(data): the write replaces the content, or
\* it throws and leaves the store as it was (writeFileSync that cannot open
\* the file; set() and commit() of Firestore, which are all-or-nothing)
Written(variant_, store_, data, ok) ==
    IF ~ok THEN store_
    ELSE IF variant_ = "enhanced" THEN Stored(stringifyParse(data))
    ELSE Stored(data)

----------------------------------------------------------------------------
(* The formatters *)

\* what a formatter call did: it has not run, returned null, returned the
\* object { title, body, changes }, returned a string (in body), or threw
NotFormatted == [kind |-> "none", title |-> Undefined, body |-> Undefined,
                 changes |-> <<>>]

ReturnedNull == [kind |-> "null", title |-> Undefined, body |-> Undefined,
                 changes |-> <<>>]

ReturnedString(chars) ==
    [kind |-> "string", title |-> Undefined, body |-> Str(chars),
     changes |-> <<>>]

FormatThrew == [kind |-> "throw", title |-> Undefined, body |-> Undefined,
                changes |-> <<>>]

\* Array.prototype.slice(begin, end) with 0 <= begin <= end
slice(array, begin, end) ==
    SubSeq(array, begin + 1, IF end < Len(array) THEN end ELSE Len(array))

\* the string join gives for one element: empty for undefined and null
JoinString(v) == IF v.t \in {"undefined", "null"} THEN <<>> ELSE ToString(v)

\* Array.prototype.join(separator)
RECURSIVE join(_, _)
join(array, separator) ==
    IF array = <<>> THEN <<>>
    ELSE IF Len(array) = 1 THEN JoinString(array[1])
    ELSE JoinString(array[1]) \o separator \o join(Tail(array), separator)

\* changes.map(change => change.message)
Messages(changes_) == [i \in 1..Len(changes_) |-> changes_[i].message]

\* the title of one Change; the shuttlecock of the source is written "(b)"
CourtAvailable == Str(<<"(b) ", "Court Available!">>)

\* the title of several Changes, `(b) ${changes.length} Courts Available!`
CourtsAvailable(length) ==
    Str(<<"(b) ">> \o NatToChars(length) \o <<" Courts Available!">>)

\* `\n\n... and ${changes.length - 3} more changes`
MoreChanges(length) ==
    <<"\n\n">> \o <<"... and ">> \o NatToChars(length - 3)
        \o <<" more changes">>

\* the formatter that puts every message in the body
formatNotificationContentAll(changes_) ==
    IF Len(changes_) = 0 THEN ReturnedNull
    ELSE IF Len(changes_) = 1
    THEN [kind |-> "notification", title |-> CourtAvailable,
          body |-> changes_[1].message, changes |-> changes_]
    ELSE [kind |-> "notification", title |-> CourtsAvailable(Len(changes_)),
          body |-> Str(join(Messages(changes_), <<"\n\n">>)),
          changes |-> changes_]

\* the formatter that always writes the count in the title and joins
formatNotificationContentCounted(changes_) ==
    IF Len(changes_) = 0 THEN ReturnedNull
    ELSE [kind |-> "notification", title |-> CourtsAvailable(Len(changes_)),
          body |-> Str(join(Messages(slice(changes_, 0, 3)), <<"\n\n">>)
                       \o <<"\n\n">>),
          changes |-> changes_]

\* the formatter that carries only the rendered Changes
formatNotificationContentSliced(changes_) ==
    IF Len(changes_) = 0 THEN ReturnedNull
    ELSE IF Len(changes_) = 1
    THEN [kind |-> "notification", title |-> CourtAvailable,
          body |-> changes_[1].message, changes |-> changes_]
    ELSE [kind |-> "notification", title |-> CourtsAvailable(Len(changes_)),
          body |-> Str(join(Messages(slice(changes_, 0, 3)), <<"\n\n">>)
                       \o (IF Len(changes_) > 3 THEN MoreChanges(Len(changes_))
                           ELSE <<>>)),
          changes |-> slice(changes_, 0, 3)]

\* the formatter that builds an object for the empty list too
formatNotificationContentAlways(changes_) ==
    IF Len(changes_) = 1
    THEN [kind |-> "notification", title |-> CourtAvailable,
          body |-> changes_[1].message, changes |-> changes_]
    ELSE [kind |-> "notification", title |-> CourtsAvailable(Len(changes_)),
          body |-> Str(join(Messages(slice(changes_, 0, 3)), <<"\n\n">>)
                       \o (IF Len(changes_) > 3 THEN MoreChanges(Len(changes_))
                           ELSE <<>>)),
          changes |-> changes_]

\* formatNotificationContent(changes), monitor-courts-enhanced.js; the two
\* Firebase variants hold the same function
formatNotificationContent(changes_) ==
    IF Len(changes_) = 0 THEN ReturnedNull
    ELSE IF Len(changes_) = 1
    THEN [kind |-> "notification", title |-> CourtAvailable,
          body |-> changes_[1].message, changes |-> changes_]
    ELSE [kind |-> "notification", title |-> CourtsAvailable(Len(changes_)),
          body |-> Str(join(Messages(slice(changes_, 0, 3)), <<"\n\n">>)
                       \o (IF Len(changes_) > 3 THEN MoreChanges(Len(changes_))
                           ELSE <<>>)),
          changes |-> changes_]

\* chars.split('-').slice(1).join('/'): what follows the first '-', with
\* every later '-' turned into '/'
RECURSIVE AfterFirstDash(_, _)
AfterFirstDash(chars, seen) ==
    IF chars = <<>> THEN <<>>
    ELSE IF Head(chars) = "-"
    THEN (IF seen THEN <<"/">> ELSE <<>>) \o AfterFirstDash(Tail(chars), TRUE)
    ELSE (IF seen THEN <<Head(chars)>> ELSE <<>>)
             \o AfterFirstDash(Tail(chars), seen)

\* date.toLocaleDateString('en-US', { weekday: 'short' }), on a UTC clock
WeekdayShort(v) ==
    LET date == DateOf(v)
    IN  IF date.valid THEN <<dayNames[date.day + 1]>> ELSE <<"Invalid Date">>

\* the text the forEach callback of formatNotificationMessage adds for one
\* Change; change.date.split throws when the date is not a string
ChangeLines(change) ==
    <<"(o) ">> \o ToString(change.venue) \o <<"\n", "   ">>
        \o WeekdayShort(change.date) \o <<", ">>
        \o AfterFirstDash(change.date.s, FALSE) \o <<" * ">>
        \o ToString(change.time) \o <<"\n", "   Now available: ">>
        \o ToString(change.courts) \o <<" courts (was ">>
        \o ToString(change.previous) \o <<")", "\n\n">>

\* changes.forEach(...) of formatNotificationMessage, from index i on
RECURSIVE AppendChangeLines(_, _, _)
AppendChangeLines(changes_, i, message) ==
    IF i > Len(changes_) THEN ReturnedString(message)
    ELSE IF changes_[i].date.t # "string" THEN FormatThrew
    ELSE AppendChangeLines(changes_, i + 1,
                           message \o ChangeLines(changes_[i]))

\* formatNotificationMessage(changes), monitor-courts.js
formatNotificationMessage(changes_) ==
    IF Len(changes_) = 0
    THEN ReturnedString(<<"No changes detected">>)
    ELSE AppendChangeLines(changes_, 1,
             <<"AVAILABILITY CHANGES:", "\n",
               "------------------------------", "\n\n">>)

----------------------------------------------------------------------------
(* The chunked Firestore store of monitor-courts-firebase.js *)

CHUNK_SIZE == 100

\* the number of chunk ids past the last written one that a save deletes
cleanupChunks == 10

\* no document exists
NoDocument == [exists |-> FALSE, totalRecords |-> 0, totalChunks |-> 0,
               chunkSize |-> 0]

\* the collection: the metadata document and the chunk documents, by the
\* index i of their id chunk_i
EmptyCollection == [metadata |-> NoDocument, chunks |-> <<>>]

\* data.slice(i, i + CHUNK_SIZE) for i = 0, CHUNK_SIZE, ...: the chunks of
\* data, in order
Chunks(data) ==
    [c \in 1..((Len(data) + CHUNK_SIZE - 1) \div CHUNK_SIZE) |->
        slice(data, (c - 1) * CHUNK_SIZE, c * CHUNK_SIZE)]

\* the ids the cleanup loop of a save of n chunks deletes
CleanedUp(n) == n..(n + cleanupChunks - 1)

\* the collection after the batch of saveCurrentData(data) has committed:
\* the metadata and the chunks of data are set, the ids of the cleanup loop
\* deleted, every other document left as it is
Committed(collection_, data) ==
    LET chunks == Chunks(data)
        kept == {i \in DOMAIN collection_.chunks :
                     i >= Len(chunks) /\ i \notin CleanedUp(Len(chunks))}
    IN  [metadata |-> [exists |-> TRUE, totalRecords |-> Len(data),
                       totalChunks |-> Len(chunks), chunkSize |-> CHUNK_SIZE],
         chunks |->
             [i \in (0..(Len(chunks) - 1)) \cup kept |->
                 IF i < Len(chunks)
                 THEN [data |-> chunks[i + 1], chunkIndex |-> i,
                       recordCount |-> Len(chunks[i + 1])]
                 ELSE collection_.chunks[i]]]

\* the for loop of loadPreviousData from chunk i on: a chunk that does not
\* exist is passed over
RECURSIVE PushChunks(_, _, _, _)
PushChunks(collection_, i, totalChunks, allData) ==
    IF i >= totalChunks THEN allData
    ELSE PushChunks(collection_, i + 1, totalChunks,
             IF i \in DOMAIN collection_.chunks
             THEN allData \o collection_.chunks[i].data
             ELSE allData)

\* a load that goes on past totalChunks, over the chunk documents it finds
\* there
LoadEveryChunk(collection_) ==
    IF ~collection_.metadata.exists THEN NoData
    ELSE Loaded(PushChunks(collection_, 0,
                    collection_.metadata.totalChunks + cleanupChunks + 1,
                    <<>>))

\* loadPreviousData() on the collection
LoadChunks(collection_) ==
    IF ~collection_.metadata.exists THEN NoData
    ELSE Loaded(PushChunks(collection_, 0, collection_.metadata.totalChunks,
                           <<>>))

\* saveCurrentData has not been called
NotSaved == [called |-> FALSE, data |-> <<>>, ok |-> FALSE]

\* there was no cycle before
NoLast ==
    [ended |-> "none", storeBefore |-> Missing, saveCall |-> NotSaved,
     fetched |-> NoData, changes |-> <<>>, emitted |-> FALSE]

\* no cycle is modelled: the store and the history stay as they are
CycleNotRun ==
    /\ store = Missing
    /\ saveCall = NotSaved
    /\ cycle = 1
    /\ storeBefore = Missing
    /\ initialStore = Missing
    /\ fetchedEver = {}
    /\ last = NoLast
    /\ collection = EmptyCollection
    /\ saves = 0
    /\ console = <<>>
    /\ steps = <<>>
    /\ calls = {}

----------------------------------------------------------------------------
(* The detector alone *)

NotRun == [kind |-> "none", changes |-> <<>>, sources |-> <<>>]

Init ==
    /\ InitShapes \/ InitValues
    /\ pc = "start"
    /\ variant = "none"
    /\ outcome = NotRun
    /\ changeList = <<>>
    /\ notification = NotFormatted
    /\ responses = <<>>
    /\ fetchCall = NotFetched
    /\ CycleNotRun

\* main of monitor-courts-enhanced.js calls detectChanges
DetectChanges ==
    /\ pc = "start"
    /\ pc' = "done"
    /\ variant' = "enhanced"
    /\ outcome' = detectChanges(currentData, previousData)
    /\ UNCHANGED <<currentData, previousData, formatVars, fetchVars,
                   cycleVars, chunkVars, logVars>>

\* main of monitor-courts.js calls detectChanges
DetectChangesSimple ==
    /\ pc = "start"
    /\ pc' = "done"
    /\ variant' = "simple"
    /\ outcome' = detectChangesSimple(currentData, previousData)
    /\ UNCHANGED <<currentData, previousData, formatVars, fetchVars,
                   cycleVars, chunkVars, logVars>>

Next == DetectChanges \/ DetectChangesSimple

Spec == Init /\ [][Next]_vars

----------------------------------------------------------------------------
(* The formatters alone, on Change lists the detectors can return *)

MaxChanges == 5

\* Changes of three slots, as detectChanges of the file/Firebase variants
\* builds them
SampleChanges ==
    {NewAvailability(SlotA(Kowloon, Num(2)), Num(2)),
     IncreasedAvailability(SlotB(Kowloon, Num(3)), Num(3), Num(1)),
     NewAvailability(SlotC(Kowloon, Num(1)), Num(1))}

\* Changes as detectChanges of monitor-courts.js builds them: the last is of
\* a record with no Available_Date
SampleChangesSimple ==
    {ChangeSimple("new_availability", SlotA(Kowloon, Num(2)), Num(2), Num(0)),
     ChangeSimple("increased_availability", SlotB(Kowloon, Num(3)), Num(3),
                  Num(1)),
     ChangeSimple("new_availability",
                  Court(VenueB, Kowloon, Undefined, Ten, Eleven, Num(1)),
                  Num(1), Num(0))}

InitFormat ==
    /\ variant \in {"enhanced", "firebase", "chunked", "simple"}
    /\ changeList \in SeqsUpTo(IF variant = "simple" THEN SampleChangesSimple
                               ELSE SampleChanges, MaxChanges)
    /\ pc = "format"
    /\ notification = NotFormatted
    /\ currentData = <<>>
    /\ previousData = NoData
    /\ outcome = NotRun
    /\ responses = <<>>
    /\ fetchCall = NotFetched
    /\ CycleNotRun

\* a call of formatNotificationContent
FormatNotificationContent ==
    /\ pc = "format"
    /\ variant \in {"enhanced", "firebase", "chunked"}
    /\ pc' = "formatted"
    /\ notification' = formatNotificationContent(changeList)
    /\ UNCHANGED <<detectVars, variant, changeList, fetchVars, cycleVars,
                   chunkVars, logVars>>

\* a call of formatNotificationMessage
FormatNotificationMessage ==
    /\ pc = "format"
    /\ variant = "simple"
    /\ pc' = "formatted"
    /\ notification' = formatNotificationMessage(changeList)
    /\ UNCHANGED <<detectVars, variant, changeList, fetchVars, cycleVars,
                   chunkVars, logVars>>

NextFormat == FormatNotificationContent \/ FormatNotificationMessage

SpecFormat == InitFormat /\ [][NextFormat]_vars

----------------------------------------------------------------------------
(* The fetchers alone, on every course of answers *)

\* Datasets the feed delivers: slot A with no court, two or three, or with a
\* count that is no number, and a slot whose district is a number, with no
\* court or two
FeedDatasets ==
    {<<SlotA(Kowloon, Num(0))>>, <<SlotA(Kowloon, Num(2))>>,
     <<SlotA(Kowloon, Num(3))>>, <<SlotA(Kowloon, Str(<<"a", "b", "c">>))>>,
     <<SlotC(Num(5), Num(0))>>, <<SlotC(Num(5), Num(2))>>}

Responses ==
    {TransportError, NotOk, UnreadableBody} \cup {Ok(d) : d \in FeedDatasets}

\* the answers the feed would give to maxRetries requests in a row
ResponseCourses == [1..maxRetries -> Responses]

InitFetch ==
    /\ variant \in {"enhanced", "firebase", "chunked", "simple"}
    /\ responses \in ResponseCourses
    /\ pc = "fetch"
    /\ fetchCall = NotFetched
    /\ currentData = <<>>
    /\ previousData = NoData
    /\ outcome = NotRun
    /\ changeList = <<>>
    /\ notification = NotFormatted
    /\ CycleNotRun

\* a call of fetchCourtData of the file and Firebase variants
FetchCourtData ==
    /\ pc = "fetch"
    /\ variant \in {"enhanced", "firebase", "chunked"}
    /\ pc' = "fetched"
    /\ fetchCall' = fetchCourtData(responses)
    /\ UNCHANGED <<detectVars, variant, formatVars, responses, cycleVars,
                   chunkVars, logVars>>

\* a call of fetchCourtData of monitor-courts.js
FetchCourtDataSimple ==
    /\ pc = "fetch"
    /\ variant = "simple"
    /\ pc' = "fetched"
    /\ fetchCall' = fetchCourtDataSimple(responses)
    /\ UNCHANGED <<detectVars, variant, formatVars, responses, cycleVars,
                   chunkVars, logVars>>

NextFetch == FetchCourtData \/ FetchCourtDataSimple

SpecFetch == InitFetch /\ [][NextFetch]_vars

----------------------------------------------------------------------------
(* The monitoring cycle: main, run once per process, cycle after cycle *)

MaxCycles == 2

\* what the store can hold before the first cycle; monitor-courts.js has no
\* store
InitialStores(variant_) ==
    IF variant_ = "simple" THEN {Missing}
    ELSE {Missing, NotADataset, Unreachable}
             \cup (IF variant_ = "enhanced" THEN {Unparsable} ELSE {})
             \cup {Stored(d) : d \in FeedDatasets}

\* where main starts: monitor-courts.js loads nothing, its previousData is
\* null when the process starts
FirstStep(variant_) == IF variant_ = "simple" THEN "fetch" ELSE "load"

InitCycle ==
    /\ variant \in {"enhanced", "firebase", "chunked", "simple"}
    /\ store \in InitialStores(variant)
    /\ initialStore = store
    /\ storeBefore = store
    /\ cycle = 1
    /\ pc = FirstStep(variant)
    /\ previousData = NoData
    /\ currentData = <<>>
    /\ outcome = NotRun
    /\ changeList = <<>>
    /\ notification = NotFormatted
    /\ responses = <<>>
    /\ fetchCall = NotFetched
    /\ saveCall = NotSaved
    /\ fetchedEver = {}
    /\ last = NoLast
    /\ collection = EmptyCollection
    /\ saves = 0
    /\ console = <<>>
    /\ steps = <<>>
    /\ calls = {}

\* const previousData = loadPreviousData()
MainLoad ==
    /\ pc = "load"
    /\ previousData' = loadPreviousData(variant, store)
    /\ pc' = "fetch"
    /\ steps' = Append(steps, "load")
    /\ UNCHANGED <<currentData, outcome, variant, formatVars, fetchVars,
                   cycleVars, chunkVars, console, calls>>

\* main that goes on with an empty Dataset when fetchCourtData returns null
AfterFetchNoAbort(result) == "detect"

\* `if (!currentData) return;`: the step main takes after fetchCourtData
AfterFetch(result) == IF result.present THEN "detect" ELSE "aborted"

\* const currentData = await fetchCourtData(), and the test of its result
MainFetch ==
    /\ pc = "fetch"
    /\ \E course \in ResponseCourses :
           fetchCall' = IF variant = "simple" THEN fetchCourtDataSimple(course)
                        ELSE fetchCourtData(course)
    /\ currentData' = fetchCall'.result.data
    /\ fetchedEver' = IF fetchCall'.result.present
                      THEN fetchedEver \cup {fetchCall'.result.data}
                      ELSE fetchedEver
    /\ pc' = AfterFetch(fetchCall'.result)
    /\ steps' = Append(steps, "fetch")
    /\ UNCHANGED <<previousData, outcome, variant, formatVars, responses,
                   store, saveCall, cycle, storeBefore, initialStore, last,
                   chunkVars, console, calls>>

\* a detector that keeps what it has notified: after a cycle that wrote a
\* notification it reports nothing
CallDetectChangesOnce(variant_, currentData_, previousData_) ==
    IF last.emitted THEN Returned(<<>>, <<>>)
    ELSE IF previousData_ = NotArray THEN Threw
    ELSE IF variant_ = "simple"
    THEN detectChangesSimple(currentData_, previousData_)
    ELSE detectChanges(currentData_, previousData_)

\* detectChanges(currentData, previousData) as main calls it: forEach of a
\* loaded value that is no array throws
CallDetectChanges(variant_, currentData_, previousData_) ==
    IF previousData_ = NotArray THEN Threw
    ELSE IF variant_ = "simple"
    THEN detectChangesSimple(currentData_, previousData_)
    ELSE detectChanges(currentData_, previousData_)

\* the formatter as main calls it: monitor-courts.js formats only a
\* non-empty list
CallFormat(variant_, changes_) ==
    IF variant_ # "simple" THEN formatNotificationContent(changes_)
    ELSE IF Len(changes_) > 0 THEN formatNotificationMessage(changes_)
    ELSE NotFormatted

\* a main without its try: what a step throws leaves main
AfterThrowUncaught(step) == "escaped"

\* `catch (error) { console.error(...) }` of main: what a step throws ends
\* the cycle there
AfterThrow(step) == "failed"

\* the step main takes after detectChanges returned: monitor-courts.js
\* calls its formatter inside `if (changes.length > 0)`
AfterDetect(variant_, changes_) ==
    IF variant_ = "simple" /\ Len(changes_) = 0 THEN "save" ELSE "format"

\* const changes = detectChanges(currentData, previousData)
MainDetect ==
    /\ pc = "detect"
    /\ outcome' = CallDetectChanges(variant, currentData, previousData)
    /\ changeList' = outcome'.changes
    /\ pc' = IF outcome'.kind = "throw" THEN AfterThrow("detect")
             ELSE AfterDetect(variant, outcome'.changes)
    /\ steps' = Append(steps, "detect")
    /\ calls' = calls \cup {[currentData |-> currentData,
                              previousData |-> previousData,
                              outcome |-> outcome']}
    /\ UNCHANGED <<currentData, previousData, variant, notification,
                   fetchVars, cycleVars, chunkVars, console>>

\* a main that saves without writing the notification block
AfterFormatStraightToSave(notification_) == "save"

\* `if (notificationContent)`: the block is written when the formatter
\* returned a notification
AfterFormat(notification_) ==
    IF notification_.kind \in {"notification", "string"} THEN "emit"
    ELSE "save"

\* const notificationContent = formatNotificationContent(changes)
MainFormat ==
    /\ pc = "format"
    /\ notification' = CallFormat(variant, changeList)
    /\ pc' = IF notification'.kind = "throw" THEN AfterThrow("format")
             ELSE AfterFormat(notification')
    /\ steps' = Append(steps, "format")
    /\ UNCHANGED <<detectVars, variant, changeList, fetchVars, cycleVars,
                   chunkVars, console, calls>>

\* the console.log lines between CHANGES_DETECTED and END_CHANGES, or
\* console.log(message) of monitor-courts.js
MainEmit ==
    /\ pc = "emit"
    /\ console' = Append(console, notification)
    /\ pc' = "save"
    /\ steps' = Append(steps, "emit")
    /\ UNCHANGED <<detectVars, variant, formatVars, fetchVars, cycleVars,
                   chunkVars, calls>>

\* saveCurrentData(currentData), which catches what the write throws, and
\* the end of main
MainSave ==
    /\ pc = "save"
    /\ variant # "simple"
    /\ \E ok \in BOOLEAN :
           /\ store' = Written(variant, store, currentData, ok)
           /\ saveCall' = [called |-> TRUE, data |-> currentData, ok |-> ok]
    /\ pc' = "completed"
    /\ steps' = Append(steps, "save")
    /\ UNCHANGED <<detectVars, variant, formatVars, fetchVars, historyVars,
                   chunkVars, console, calls>>

\* previousData = currentData of monitor-courts.js, and the end of main
MainAssign ==
    /\ pc = "save"
    /\ variant = "simple"
    /\ previousData' = Loaded(currentData)
    /\ saveCall' = [called |-> TRUE, data |-> currentData, ok |-> TRUE]
    /\ pc' = "completed"
    /\ steps' = Append(steps, "save")
    /\ UNCHANGED <<currentData, outcome, variant, formatVars, fetchVars,
                   store, historyVars, chunkVars, console, calls>>

\* main has returned
Ended == pc \in {"completed", "aborted", "failed", "escaped"}

Emitted == console # <<>>

\* a process that keeps the snapshot of the process before it
ProcessStartKept(variant_, previousData_) == previousData_

\* `let previousData = null;` of monitor-courts.js, and the const of the
\* other programs, not yet assigned: a process starts without a snapshot
ProcessStart(variant_, previousData_) == NoData

\* the scheduler starts the next process: nothing of the last one is left
\* but the store
NextCycle ==
    /\ Ended
    /\ cycle < MaxCycles
    /\ cycle' = cycle + 1
    /\ last' = [ended |-> pc, storeBefore |-> storeBefore,
                saveCall |-> saveCall, fetched |-> fetchCall.result,
                changes |-> changeList, emitted |-> Emitted]
    /\ storeBefore' = store
    /\ pc' = FirstStep(variant)
    /\ previousData' = ProcessStart(variant, previousData)
    /\ currentData' = <<>>
    /\ outcome' = NotRun
    /\ changeList' = <<>>
    /\ notification' = NotFormatted
    /\ fetchCall' = NotFetched
    /\ saveCall' = NotSaved
    /\ console' = <<>>
    /\ steps' = <<>>
    /\ UNCHANGED <<variant, responses, store, initialStore, fetchedEver,
                   chunkVars, calls>>

NextMain ==
    \/ MainLoad
    \/ MainFetch
    \/ MainDetect
    \/ MainFormat
    \/ MainEmit
    \/ MainSave
    \/ MainAssign
    \/ NextCycle

SpecCycle == InitCycle /\ [][NextMain]_vars

----------------------------------------------------------------------------
(* The chunked store alone: saves of Datasets of several sizes, and loads *)

MaxSaves == 3

\* a Dataset of n records: slot A with 1, 2, ... n courts
DatasetOf(n) == [i \in 1..n |-> SlotA(Kowloon, Num(i))]

\* the sizes saved: no record, one chunk, one full chunk, two and three
\* chunks, twelve chunks
SavedSizes == {0, 1, 100, 101, 250, 1101}

InitChunks ==
    /\ collection = EmptyCollection
    /\ saves = 0
    /\ console = <<>>
    /\ steps = <<>>
    /\ calls = {}
    /\ variant = "chunked"
    /\ pc = "store"
    /\ currentData = <<>>
    /\ previousData = NoData
    /\ outcome = NotRun
    /\ changeList = <<>>
    /\ notification = NotFormatted
    /\ responses = <<>>
    /\ fetchCall = NotFetched
    /\ store = Missing
    /\ saveCall = NotSaved
    /\ cycle = 1
    /\ storeBefore = Missing
    /\ initialStore = Missing
    /\ fetchedEver = {}
    /\ last = NoLast

\* saveCurrentData(data) of monitor-courts-firebase.js: the batch commits,
\* or commit() throws and nothing is written
SaveChunks ==
    /\ saves < MaxSaves
    /\ saves' = saves + 1
    /\ \E n \in SavedSizes, ok \in BOOLEAN :
           /\ currentData' = DatasetOf(n)
           /\ saveCall' = [called |-> TRUE, data |-> currentData', ok |-> ok]
           /\ collection' = IF ok THEN Committed(collection, currentData')
                            ELSE collection
    /\ pc' = "saved"
    /\ UNCHANGED <<previousData, variant, outcome, formatVars, fetchVars,
                   store, historyVars, logVars>>

\* loadPreviousData() of monitor-courts-firebase.js
LoadChunksCall ==
    /\ previousData' = LoadChunks(collection)
    /\ pc' = "loaded"
    /\ UNCHANGED <<currentData, variant, outcome, formatVars, fetchVars,
                   cycleVars, chunkVars, logVars>>

NextChunks == SaveChunks \/ LoadChunksCall

SpecChunks == InitChunks /\ [][NextChunks]_vars

----------------------------------------------------------------------------
(* What the claims speak of *)

Done == pc = "done"

\* the identity key (venue, date, sessionStart) of two records is the same
SameSlot(a, b) ==
    /\ a.Venue_Name_EN = b.Venue_Name_EN
    /\ a.Available_Date = b.Available_Date
    /\ a.Session_Start_Time = b.Session_Start_Time

\* the positions of data that hold a record of court's slot
PositionsOf(data, court) == {j \in 1..Len(data) : SameSlot(data[j], court)}

Max(S) == CHOOSE x \in S : \A y \in S : y <= x

\* the current record at position i has a previous record of its slot
Matched(i) ==
    previousData.present /\ PositionsOf(previousData.data, currentData[i]) # {}

\* the last previous record of the slot of the current record at position i
LastPrevious(i) ==
    previousData.data[Max(PositionsOf(previousData.data, currentData[i]))]

\* the positions of currentData the detector forms a pair for: every position
\* in the file and Firebase variants; in monitor-courts.js, whose currentMap
\* keeps one record per key, the last position of each slot
Paired(i) ==
    /\ Matched(i)
    /\ variant = "simple" => i = Max(PositionsOf(currentData, currentData[i]))

\* the Changes pushed for the current record at position i
ChangesFrom(i) ==
    {n \in 1..Len(outcome.changes) : outcome.sources[n] = i}

\* the Changes that bear the identity key of the current record at position i
ChangesForSlot(i) ==
    {n \in 1..Len(outcome.changes) :
        SameSlot(currentData[outcome.sources[n]], currentData[i])}

\* the counts a Change records, under either variant's field names
CurrentCountOf(change) ==
    IF variant = "simple" THEN change.courts ELSE change.currentCount

PreviousCountOf(change) ==
    IF variant = "simple" THEN change.previous ELSE change.previousCount

\* `${sessionStart}-${sessionEnd}` of a record
TimeRange(court) ==
    Str(ToString(court.Session_Start_Time) \o <<"-">>
            \o ToString(court.Session_End_Time))

\* c <= p on numbers
Le(a, b) == a.t = "number" /\ b.t = "number" /\ a.n <= b.n

\* every district of the Dataset is what the Slot type allows: a string, or
\* absent
DistrictsAreText(data) ==
    \A i \in 1..Len(data) :
        data[i].District_Name_EN.t \in {"string", "undefined", "null"}

NoRepeatedSlot(data) ==
    \A i, j \in 1..Len(data) : SameSlot(data[i], data[j]) => i = j

----------------------------------------------------------------------------
(* The claims *)

\* C1: with no previous data, detectChanges returns the empty Change list,
\* whatever the current Dataset holds, in both variants of the detector.
C1_NoPreviousNoChanges ==
    Done /\ ~previousData.present => outcome = Returned(<<>>, <<>>)

\* C1 witness: the detector ran with no previous data on a Dataset of several
\* records, some with courts available.
C1_Witness ==
    /\ Done /\ ~previousData.present /\ variant = "enhanced"
    /\ Len(currentData) >= 2
    /\ \E i \in 1..Len(currentData) : Gt(Available(currentData[i]), Num(0))

\* C2: detect(D, D) returns the empty Change list for every Dataset D, also
\* when D holds several records of one slot with different counts.
C2_SameSnapshotNoChanges ==
    Done /\ previousData = Loaded(currentData) => outcome = Returned(<<>>, <<>>)

C4_NoChangeForSlotKey ==
    Done =>
        \A i \in 1..Len(currentData) :
            Matched(i) /\ Le(Available(currentData[i]), Available(LastPrevious(i)))
            => ChangesForSlot(i) = {}

\* C4 amended: if a current record s has parsed counts c <= p, no Change is
\* pushed for s, and the list holds no Change for s's identity key when every
\* current record of that key has a count <= p.
C4_NoChangeWithoutRise ==
    Done =>
        \A i \in 1..Len(currentData) :
            Matched(i) /\ Le(Available(currentData[i]), Available(LastPrevious(i)))
            => /\ ChangesFrom(i) = {}
               /\ (\A j \in PositionsOf(currentData, currentData[i]) :
                      Le(Available(currentData[j]), Available(LastPrevious(i))))
                  => ChangesForSlot(i) = {}

\* C4 witness: a slot whose only current record fell from 2 to 0 got no
\* Change, in a call that pushed a Change for another slot.
C4_Witness ==
    /\ Done /\ Len(outcome.changes) >= 1
    /\ \E i \in 1..Len(currentData) :
        /\ Matched(i)
        /\ PositionsOf(currentData, currentData[i]) = {i}
        /\ Available(currentData[i]) = Num(0)
        /\ Available(LastPrevious(i)) = Num(2)
        /\ ChangesForSlot(i) = {}

\* C5: a current record whose identity key (venue, date, sessionStart) does
\* not occur in the previous Dataset gets no Change, whatever its count.
C5_UnmatchedSlotNoChange ==
    Done =>
        \A i \in 1..Len(currentData) :
            ~Matched(i) => ChangesFrom(i) = {} /\ ChangesForSlot(i) = {}

\* C5 witness: a slot absent from a present previous Dataset appeared with
\* courts available and got no Change, in a call that pushed one for another.
C5_Witness ==
    /\ Done /\ previousData.present /\ Len(outcome.changes) >= 1
    /\ \E i \in 1..Len(currentData) :
        /\ ~Matched(i)
        /\ Gt(Available(currentData[i]), Num(0))
        /\ ChangesForSlot(i) = {}

\* the Changes come in the order of the current records they were pushed for
InCurrentOrder ==
    \A m, n \in 1..Len(outcome.changes) :
        m < n => outcome.sources[m] < outcome.sources[n]

\* C6 as stated: in every variant, also with repeated keys in the current
\* Dataset, a Change from current position i precedes one from position j > i.
C6_OrderOfCurrentEveryVariant == Done => InCurrentOrder

\* C6 amended: the Changes are in current-Dataset order in the file and
\* Firebase variants, also with repeated keys; in monitor-courts.js they are
\* when the current Dataset repeats no key.
C6_OrderOfCurrent ==
    Done /\ (variant = "enhanced" \/ NoRepeatedSlot(currentData))
        => InCurrentOrder

\* C6 witness: two Changes in current order, slot B before slot A, from a
\* current Dataset that repeats a key and a previous Dataset that lists A
\* before B.
C6_Witness ==
    /\ Done /\ variant = "enhanced" /\ ~NoRepeatedSlot(currentData)
    /\ Len(outcome.changes) = 2
    /\ outcome.changes[1].time = TimeRange(SlotB(Kowloon, Num(3)))
    /\ outcome.changes[2].time = TimeRange(SlotA(Kowloon, Num(2)))
    /\ previousData = Loaded(<<SlotA(Kowloon, Num(0)), SlotB(Kowloon, Num(1))>>)

\* data without the records that a later record of the same slot follows
RECURSIVE KeepLastFrom(_, _)
KeepLastFrom(data, j) ==
    IF j > Len(data) THEN <<>>
    ELSE (IF j = Max(PositionsOf(data, data[j])) THEN <<data[j]>> ELSE <<>>)
             \o KeepLastFrom(data, j + 1)

\* the detector of the variant that ran
OutcomeOf(currentData_, previousData_) ==
    IF variant = "simple" THEN detectChangesSimple(currentData_, previousData_)
    ELSE detectChanges(currentData_, previousData_)

\* C7: with several previous records of one slot, each current record of the
\* slot is compared against the last of them: every Change records the count
\* of that last record, and the result is what it is with the earlier
\* records of each slot taken out of the previous Dataset.
C7_LastPreviousWins ==
    Done /\ previousData.present =>
        /\ \A n \in 1..Len(outcome.changes) :
              PreviousCountOf(outcome.changes[n])
                  = Available(LastPrevious(outcome.sources[n]))
        /\ outcome = OutcomeOf(currentData,
                               Loaded(KeepLastFrom(previousData.data, 1)))

\* C7 witness: the previous Dataset held slot B with 3 courts and then with 1,
\* the current one holds it with 3, and the Change found is the rise from 1.
C7_Witness ==
    /\ Done
    /\ previousData = Loaded(<<SlotB(Kowloon, Num(3)), SlotB(Kowloon, Num(1))>>)
    /\ currentData = <<SlotB(Kowloon, Num(3))>>
    /\ Len(outcome.changes) = 1
    /\ PreviousCountOf(outcome.changes[1]) = Num(1)
    /\ CurrentCountOf(outcome.changes[1]) = Num(3)

\* a count that is missing, null, or a string that is not a number
ZeroLike(v) ==
    \/ v.t \in {"undefined", "null"}
    \/ v.t = "string" /\ (v.s = <<>> \/ \A k \in 1..Len(v.s) : ~IsDigit(v.s[k]))

\* C8: a missing, null or non-numeric previous count is taken as 0: a pair
\* with such a previous count and a current count above 0 gets a
\* new_availability Change with previousCount 0.
C8_MalformedCountIsZero ==
    Done /\ DistrictsAreText(currentData) =>
        \A i \in 1..Len(currentData) :
            /\ Paired(i)
            /\ ZeroLike(LastPrevious(i).Available_Courts)
            /\ Gt(Available(currentData[i]), Num(0))
            => \E n \in ChangesFrom(i) :
                  /\ outcome.changes[n].type = "new_availability"
                  /\ PreviousCountOf(outcome.changes[n]) = Num(0)

\* C9: detectChanges returns a Change list for every current and every
\* present previous Dataset, whatever shape the fields of a record have; it
\* never throws.
C9_DetectNeverThrows == Done => outcome.kind = "return"

\* C10: every Change records the transition it was pushed for: the parsed
\* current and previous counts (previous 0 for new_availability), the venue,
\* date and time range of the current record; previous 0 and current 2 give
\* one new_availability (0, 2), previous 1 and current 3 one
\* increased_availability (1, 3).
C10_ChangeRecordsTransition ==
    Done =>
        /\ \A n \in 1..Len(outcome.changes) :
              LET change == outcome.changes[n]
                  i == outcome.sources[n]
              IN  /\ Matched(i)
                  /\ CurrentCountOf(change) = Available(currentData[i])
                  /\ PreviousCountOf(change) = Available(LastPrevious(i))
                  /\ change.type = "new_availability"
                         => PreviousCountOf(change) = Num(0)
                  /\ change.venue = currentData[i].Venue_Name_EN
                  /\ change.date = currentData[i].Available_Date
                  /\ change.time = TimeRange(currentData[i])
        /\ \A c \in {<<0, 2>>, <<1, 3>>} :
              /\ previousData = Loaded(<<SlotA(Kowloon, Num(c[1]))>>)
              /\ currentData = <<SlotA(Kowloon, Num(c[2]))>>
              => /\ Len(outcome.changes) = 1
                 /\ outcome.changes[1].type =
                        IF c[1] = 0 THEN "new_availability"
                        ELSE "increased_availability"
                 /\ PreviousCountOf(outcome.changes[1]) = Num(c[1])
                 /\ CurrentCountOf(outcome.changes[1]) = Num(c[2])

\* C10 witness: previous 1 and current 3 of slot A gave one Change.
C10_Witness ==
    /\ Done /\ variant = "enhanced"
    /\ previousData = Loaded(<<SlotA(Kowloon, Num(1))>>)
    /\ currentData = <<SlotA(Kowloon, Num(3))>>
    /\ Len(outcome.changes) = 1
    /\ outcome.changes[1].previousCount = Num(1)

----------------------------------------------------------------------------
(* The formatter claims, under SpecFormat *)

Formatted == pc = "formatted"

\* the formatter of the file and Firebase variants ran
ContentFormatted == Formatted /\ variant # "simple"

\* chars holds part as a run of consecutive characters
Contains(chars, part) ==
    \E i \in 0..(Len(chars) - Len(part)) :
        SubSeq(chars, i + 1, i + Len(part)) = part

BlankLine == <<"\n\n">>

C12_FirstThreeAndSummary ==
    ContentFormatted /\ Len(changeList) >= 2 =>
        LET N == Len(changeList)
            m(i) == changeList[i].message.s
            summary == <<"... and ">> \o NatToChars(N - 3)
                           \o <<" more changes">>
        IN  /\ notification.kind = "notification"
            /\ Contains(notification.title.s, NatToChars(N))
            /\ notification.body.s =
                   m(1) \o BlankLine \o m(2)
                       \o (IF N >= 3 THEN BlankLine \o m(3) ELSE <<>>)
                       \o (IF N > 3 THEN BlankLine \o summary ELSE <<>>)
            /\ Contains(notification.body.s, <<" more changes">>) <=> N > 3

\* five Changes: three messages, then "... and 2 more changes"
C12_Witness ==
    /\ ContentFormatted
    /\ Len(changeList) = 5
    /\ changeList[4] # changeList[1]
    /\ LET body == notification.body.s
       IN  SubSeq(body, Len(body) - 2, Len(body)) =
               <<"... and ", "2", " more changes">>

\* C13: for exactly one Change the title is the fixed banner, with no count,
\* and the body is that Change's message and nothing else.
C13_OneChangeVerbatim ==
    ContentFormatted /\ Len(changeList) = 1 =>
        /\ notification.kind = "notification"
        /\ notification.title = Str(<<"(b) ", "Court Available!">>)
        /\ \A i \in 1..Len(notification.title.s) :
               ~IsDigit(notification.title.s[i])
        /\ notification.body = changeList[1].message

C13_Witness ==
    /\ ContentFormatted
    /\ Len(changeList) = 1
    /\ changeList[1].type = "increased_availability"
    /\ notification.body = changeList[1].message

\* C14: for every non-empty Change list the returned Notification carries the
\* whole list: the same elements, in the same order.
C14_CarriesWholeList ==
    ContentFormatted /\ changeList # <<>> =>
        /\ notification.kind = "notification"
        /\ notification.changes = changeList

\* four Changes are carried although the body renders three
C14_Witness ==
    /\ ContentFormatted
    /\ Len(changeList) = 4
    /\ notification.changes = changeList
    /\ ~Contains(notification.body.s, changeList[4].message.s)

----------------------------------------------------------------------------
(* The fetcher claim, under SpecFetch *)

Fetched == pc = "fetched"

Failed(response) == response.kind \in {"error", "status", "body"}

\* the bounded retry: at most 3 attempts, a wait of the fixed delay after
\* every failed attempt but the last and nowhere else, the first successful
\* answer's Dataset returned at once, null exactly when 3 attempts failed
BoundedRetry ==
    LET n == fetchCall.attempts
    IN  /\ n \in 1..3
        /\ \A i \in 1..(n - 1) : Failed(responses[i])
        /\ Len(fetchCall.delays) = n - 1
        /\ \A i \in 1..(n - 1) :
               fetchCall.delays[i] = [after |-> i, ms |-> 5000]
        /\ Succeeds(responses[n]) => fetchCall.result = Loaded(responses[n].data)
        /\ Failed(responses[n]) => n = 3 /\ fetchCall.result = NoData
        /\ fetchCall.result = NoData <=> \A i \in 1..3 : Failed(responses[i])

\* C20, as stated: the fetcher of every variant makes the bounded retry.
C20_BoundedRetryEveryVariant == Fetched => BoundedRetry

\* C20, amended: fetchCourtData of the file and Firebase variants makes at
\* most 3 attempts, waits the fixed delay only between a failed attempt and
\* the next, stops at the first success and returns its Dataset, and returns
\* null exactly when all 3 attempts failed, whichever way each failed;
\* fetchCourtData of monitor-courts.js makes one attempt, never waits, and
\* returns null exactly when that attempt failed.
C20_BoundedRetry ==
    /\ Fetched /\ variant # "simple" => BoundedRetry
    /\ Fetched /\ variant = "simple" =>
           /\ fetchCall.attempts = 1
           /\ fetchCall.delays = <<>>
           /\ Failed(responses[1]) <=> fetchCall.result = NoData
           /\ Succeeds(responses[1]) =>
                  fetchCall.result = Loaded(responses[1].data)

\* a transport error, then a non-2xx answer, then an unreadable body: null
\* after three attempts and two waits
C20_Witness ==
    /\ Fetched
    /\ variant = "enhanced"
    /\ responses = <<TransportError, NotOk, UnreadableBody>>
    /\ fetchCall = FetchReturned(NoData, 3, <<[after |-> 1, ms |-> 5000],
                                             [after |-> 2, ms |-> 5000]>>)

----------------------------------------------------------------------------
(* The cycle claims, under SpecCycle *)

\* fetchCourtData has returned null in this cycle
FetchFailed == fetchCall.attempts > 0 /\ ~fetchCall.result.present

\* fetchCourtData has returned a Dataset in this cycle
FetchSucceeded == fetchCall.attempts > 0 /\ fetchCall.result.present

C16_FetchedIsSaved ==
    /\ Ended /\ FetchSucceeded /\ storeBefore.state \in {"missing", "dataset"}
           =>
           /\ saveCall.called
           /\ saveCall.data = currentData
    /\ variant # "simple" /\ last.saveCall.called /\ last.saveCall.ok
           /\ pc # "load" =>
           previousData = Loaded(last.saveCall.data)

\* C17: when the store is missing, corrupt or unreachable, load returns
\* null, detect yields no Changes and the cycle goes on to fetch and save.
C17_BadStoreLoadsAbsent ==
    variant # "simple" /\ storeBefore.state # "dataset" =>
        /\ pc # "load" => previousData = NoData
        /\ pc # "failed"
        /\ outcome.changes = <<>>

----------------------------------------------------------------------------
(* The chunked store claim, under SpecChunks *)

\* C19: after any sequence of successful chunked saves the collection holds
\* no chunk document with an index >= the current totalChunks, however many
\* chunks the save before wrote.
C19_NoStaleChunk ==
    collection.metadata.exists =>
        \A i \in DOMAIN collection.chunks : i < collection.metadata.totalChunks

\* the collection holds a chunk document no save since has rewritten or
\* deleted
StaleChunk ==
    \E i \in DOMAIN collection.chunks : i >= collection.metadata.totalChunks

\* C21: a successful save(D) followed by load returns D, the same records
\* in the same order, for every D (empty, or of a size that is no multiple
\* of the chunk size), every chunk holds at most 100 records, whatever
\* chunks earlier saves left in the collection.
C21_ChunkedRoundTrip ==
    /\ \A i \in DOMAIN collection.chunks :
           /\ Len(collection.chunks[i].data) <= 100
           /\ collection.chunks[i].recordCount = Len(collection.chunks[i].data)
    /\ saveCall.called /\ saveCall.ok =>
           /\ LoadChunks(collection) = Loaded(saveCall.data)
           /\ pc = "loaded" => previousData = Loaded(currentData)

\* one record saved over the twelve chunks of an earlier save and loaded,
\* with a chunk of the earlier save still in the collection
C21_Witness ==
    /\ pc = "loaded"
    /\ saveCall.called
    /\ saveCall.ok
    /\ Len(currentData) = 1
    /\ StaleChunk
    /\ previousData = Loaded(currentData)

----------------------------------------------------------------------------
(* The order of the steps of a cycle *)

\* the place of a step in the order load, fetch, detect, format, emit, save
Rank(step) ==
    CASE step = "load" -> 1
      [] step = "fetch" -> 2
      [] step = "detect" -> 3
      [] step = "format" -> 4
      [] step = "emit" -> 5
      [] step = "save" -> 6

Stepped(step) == \E i \in DOMAIN steps : steps[i] = step

\* C22: the steps a cycle has taken are in the order load, fetch, detect,
\* format, emit, save, none of them twice, and a step is marked only when
\* it has finished; every cycle that loads begins with load; when save has
\* happened and the formatter returned a notification, that notification
\* was written before; and detect has run only on the Dataset this cycle's
\* fetch returned.
C22_StepsInOrder ==
    /\ \A i, j \in DOMAIN steps : i < j => Rank(steps[i]) < Rank(steps[j])
    /\ variant # "simple" /\ steps # <<>> => steps[1] = "load"
    /\ Stepped("detect") =>
           /\ Stepped("fetch")
           /\ fetchCall.result = Loaded(currentData)
    /\ Stepped("format") => Stepped("detect") /\ outcome.kind # "throw"
    /\ Stepped("emit") => Stepped("format") /\ console = <<notification>>
    /\ Stepped("save") =>
           /\ Stepped("detect")
           /\ variant # "simple" => Stepped("format")
           /\ notification.kind \in {"notification", "string"} =>
                  Stepped("emit")

\* a cycle has gone through all six steps and written its notification
C22_Witness ==
    /\ pc = "completed"
    /\ steps = <<"load", "fetch", "detect", "format", "emit", "save">>
    /\ console = <<notification>>
    /\ Len(changeList) > 0
----------------------------------------------------------------------------
(* The detector as a function *)

\* two calls of detectChanges had the same arguments
SameArguments(a, b) ==
    /\ a.currentData = b.currentData
    /\ a.previousData = b.previousData

\* the step of main that calls detectChanges is about to be taken
Detecting == pc = "detect"

----------------------------------------------------------------------------
(* The end of a cycle *)

\* a statement of main other than the call of detectChanges
MainStepButDetect ==
    \/ MainLoad
    \/ MainFetch
    \/ MainFormat
    \/ MainEmit
    \/ MainSave
    \/ MainAssign

\* main stands before a statement it can execute: the call of
\* detectChanges returns or throws, any other statement has a next state
CanStep ==
    IF pc = "detect"
    THEN CallDetectChanges(variant, currentData, previousData).kind
             \in {"return", "throw"}
    ELSE ENABLED MainStepButDetect

\* C24: main always has a next statement to execute until it has returned;
\* each statement is executed once, so a cycle takes at most six steps;
\* fetchCourtData makes at most 3 attempts; and main returns at its last
\* line (completed), at the return after a failed fetch (aborted) or from
\* its catch (failed), never with an exception that leaves it.
C24_CycleTerminates ==
    /\ [](/\ Ended \/ CanStep
          /\ pc \in {"load", "fetch", "detect", "format", "emit", "save",
                     "completed", "aborted", "failed"}
          /\ Len(steps) <= 6
          /\ fetchCall.attempts <= maxRetries
          /\ pc = "aborted" =>
                 fetchCall.attempts = IF variant = "simple" THEN 1
                                      ELSE maxRetries)
    /\ [][cycle' = cycle => Len(steps') = Len(steps) + 1]_vars

\* a cycle fetched at its third attempt, and then a step threw: main ended
\* in its catch
C24_Witness ==
    /\ pc = "failed"
    /\ fetchCall.attempts = maxRetries
    /\ outcome.kind = "throw"
    /\ ~saveCall.called
----------------------------------------------------------------------------
(* Rises over consecutive cycles *)

\* the Changes written in this cycle's notification block
EmittedChanges == IF console = <<>> THEN <<>> ELSE console[1].changes

\* a Change bears the identity of a record
ChangeIsFor(change, court) ==
    /\ change.venue = court.Venue_Name_EN
    /\ change.date = court.Available_Date
    /\ change.time = TimeOf(court)

\* the count of a record: a missing or malformed count is the count 0
CountOf(court) ==
    IF Available(court).t = "number" THEN Available(court).n ELSE 0

\* the slot of the current record at position i was fetched in the cycle
\* before with a lower count
RoseAt(i) ==
    \E j \in 1..Len(last.fetched.data) :
        /\ SameSlot(last.fetched.data[j], currentData[i])
        /\ CountOf(currentData[i]) > CountOf(last.fetched.data[j])

\* this cycle and the one before it fetched Datasets without repeated keys
\* and saved them
TwoGoodCycles ==
    /\ variant # "simple"
    /\ cycle > 1
    /\ last.ended = "completed" /\ last.saveCall.ok
    /\ pc = "completed" /\ saveCall.ok
    /\ NoRepeatedSlot(last.fetched.data)
    /\ NoRepeatedSlot(currentData)

\* C25: when this cycle and the one before it both fetched and saved
\* Datasets without repeated keys, a Change for a slot is written in this
\* cycle exactly when the slot is in both Datasets and its count rose from
\* the cycle before to this one.
C25_RiseNotifiedOnce ==
    TwoGoodCycles =>
        \A i \in 1..Len(currentData) :
            (\E n \in 1..Len(EmittedChanges) :
                 ChangeIsFor(EmittedChanges[n], currentData[i]))
                <=> RoseAt(i)
----------------------------------------------------------------------------
(* The in-memory variant over its invocations *)

\* C26: in monitor-courts.js every call of detectChanges, in whatever
\* invocation, was handed no previous data and returned no Change; main
\* stands before fetch and detect with previousData null; and no
\* notification is written in this invocation or was in the one before.
C26_InMemoryNeverReports ==
    variant = "simple" =>
        /\ \A call \in calls :
               /\ call.previousData = NoData
               /\ call.outcome = Returned(<<>>, <<>>)
        /\ pc \in {"fetch", "detect"} => previousData = NoData
        /\ changeList = <<>>
        /\ console = <<>> /\ ~last.emitted

\* the second invocation of monitor-courts.js has fetched two courts for a
\* slot that had none in the first, and has ended without a Change
C26_Witness ==
    /\ variant = "simple"
    /\ cycle = 2
    /\ last.ended = "completed"
    /\ last.fetched = Loaded(<<SlotA(Kowloon, Num(0))>>)
    /\ currentData = <<SlotA(Kowloon, Num(2))>>
    /\ pc = "completed"
    /\ outcome = Returned(<<>>, <<>>)
    /\ console = <<>>
====
